---- MODULE Spec2Model ----
(***************************************************************************)
(* Kee, an AWS CLI profile manager (kee.py).                               *)
(*                                                                         *)
(* Every invocation of the tool is an operating-system process of its own. *)
(* The invocations share two files, the registry ~/.aws/kee.json and the   *)
(* credentials file ~/.aws/config, and nothing else.  A process is modelled*)
(* at the granularity of its file loads, prompts, external commands and    *)
(* file saves.  Spec lets one process run at a time (a process blocked on  *)
(* its sub-shell does not run): the tool as it is used, command after      *)
(* command.  SpecRace interleaves the processes freely.                    *)
(***************************************************************************)
EXTENDS Naturals, Sequences, FiniteSets, TLC

\* ---------------------------------------------------------------- bounds

\* Number of process slots: the invocations that can be in progress at once.
NProcs == 2

Procs == 1 .. NProcs

\* The processes of the specification of concurrent invocations: a race
\* between two.
Racers == {p \in Procs : p <= 2}

\* Number of command lines run in one behaviour.
MaxInvocations == 3

\* Account names given on the command line.
Names == {"a", "b"}

\* JSON null (current_account) and an environment variable that is not set.
Null == "<null>"
Unset == "<unset>"

\* ------------------------------------------------------- ordered mappings
\* A Python dict (the registry's accounts) and a ConfigParser (the sections
\* of the credentials file) keep insertion order: a sequence of entries
\* [name, val] without repeated names.

KeysOf(m) == {m[i].name : i \in DOMAIN m}

Has(m, n) == n \in KeysOf(m)

Get(m, n) == m[CHOOSE i \in DOMAIN m : m[i].name = n].val

\* m[n] = v: an existing key keeps its place, a new key goes last.
Put(m, n, v) ==
    IF Has(m, n)
    THEN [i \in DOMAIN m |-> IF m[i].name = n THEN [name |-> n, val |-> v] ELSE m[i]]
    ELSE Append(m, [name |-> n, val |-> v])

\* del m[n]
Del(m, n) == SelectSeq(m, LAMBDA e : e.name # n)

\* d.get(k, default) on a dict of strings
GetOr(d, k, default) == IF k \in DOMAIN d THEN d[k] ELSE default

\* d.setdefault(k, default)
SetDefault(d, k, default) == IF k \in DOMAIN d THEN d ELSE (k :> default) @@ d

\* ------------------------------------------------------------- KeeConfig

DefaultConfig == [accounts |-> <<>>, current_account |-> Null]

\* The registry file: absent, or the JSON last saved.
NoRegistry == [exists |-> FALSE, accounts |-> <<>>, current_account |-> Null]

\* A registry file the tool did not write.  What is wrong with it:
\*   "not_json"      the text is not JSON (json.JSONDecodeError)
\*   "unreadable"    open() fails, e.g. the path is a directory (IOError)
\*   "not_utf8"      the bytes are not UTF-8 (UnicodeDecodeError, a
\*                   ValueError that is not a JSONDecodeError)
\*   "not_registry"  JSON, but not the registry object: the array []
Damages == {"not_json", "unreadable", "not_utf8", "not_registry"}

DamagedRegistry(damage) == [exists |-> TRUE, damage |-> damage]

Damaged(file) == "damage" \in DOMAIN file

\* Exceptions that load_config catches: (json.JSONDecodeError, IOError)
CaughtByLoad(damage) == damage \in {"not_json", "unreadable"}

\* What json.load returns for JSON that is not the registry object.
JsonArray == [json |-> "[]"]

\* load_config raises: the exception is not one it catches.
load_config_raises(file) ==
    file.exists /\ Damaged(file) /\ file.damage = "not_utf8"

\* load_config that forgets current_account.
load_config_without_current(file) ==
    IF ~file.exists \/ Damaged(file)
    THEN DefaultConfig
    ELSE [accounts |-> file.accounts, current_account |-> Null]

\* What load_config returns, when it returns.
load_config(file) ==
    IF ~file.exists
    THEN DefaultConfig
    ELSE IF Damaged(file)
         THEN IF CaughtByLoad(file.damage) THEN DefaultConfig ELSE JsonArray
         ELSE [accounts |-> file.accounts, current_account |-> file.current_account]

save_config(config) ==
    [exists |-> TRUE, accounts |-> config.accounts,
     current_account |-> config.current_account]

\* ------------------------------------------------------ AWSConfigManager

\* The credentials file: absent, or its sections in file order, each with
\* its items.
NoAwsConfig == [exists |-> FALSE, sections |-> <<>>]

ProfileSection(profile_name) == "profile " \o profile_name

SsoSessionSection(session_name) == "sso-session " \o session_name

\* {} of Python: the dict without keys.
EmptyDict == [k \in {} |-> ""]

\* Longest run of percent signs in a value.
MaxPercents == 4

RECURSIVE PercentRun(_)
PercentRun(n) == IF n = 0 THEN "" ELSE "%" \o PercentRun(n - 1)

\* The number of percent signs of a value that consists of them (0: the
\* value has none).
Percents(value) ==
    IF \E n \in 1 .. MaxPercents : value = PercentRun(n)
    THEN CHOOSE n \in 1 .. MaxPercents : value = PercentRun(n)
    ELSE 0

\* config.items(section) of a ConfigParser() interpolates the values
\* (BasicInterpolation): "%%" stands for "%", and a "%" that is followed
\* neither by "%" nor by "(" raises InterpolationSyntaxError.
InterpolationFails(value) == Percents(value) % 2 = 1

Interpolate(value) == PercentRun(Percents(value) \div 2) \o
                      (IF Percents(value) = 0 THEN value ELSE "")

ItemsFail(items) == \E k \in DOMAIN items : InterpolationFails(items[k])

InterpolatedItems(items) == [k \in DOMAIN items |-> Interpolate(items[k])]

\* The sections whose items cannot be interpolated.
FailingSections(sections) == {i \in DOMAIN sections : ItemsFail(sections[i].val)}

FirstFailing(sections) ==
    CHOOSE i \in FailingSections(sections) :
        \A j \in FailingSections(sections) : i <= j

\* _write_config_with_formatting raises: config.items() of some section does.
write_config_raises(sections) == FailingSections(sections) # {}

\* The file _write_config_with_formatting leaves.  It is opened with "w"
\* (truncated); the sections are written in the order they were read, each
\* header followed by the interpolated items.  When config.items() raises,
\* the header of that section is the last thing written.
write_config_with_formatting(sections) ==
    LET written(i) == [name |-> sections[i].name,
                       val |-> InterpolatedItems(sections[i].val)]
    IN IF write_config_raises(sections)
       THEN [exists |-> TRUE,
             sections |-> [i \in 1 .. FirstFailing(sections) |->
                             IF i < FirstFailing(sections)
                             THEN written(i)
                             ELSE [name |-> sections[i].name, val |-> EmptyDict]]]
       ELSE [exists |-> TRUE, sections |-> [i \in DOMAIN sections |-> written(i)]]

reformat_config_raises(file) == file.exists /\ write_config_raises(file.sections)

reformat_config_file(file) ==
    IF ~file.exists THEN file ELSE write_config_with_formatting(file.sections)

RemovedSectionName(profile_name) ==
    IF profile_name # "default" THEN ProfileSection(profile_name) ELSE "default"

remove_profile(file, profile_name) ==
    IF ~file.exists
    THEN file
    ELSE IF Has(file.sections, RemovedSectionName(profile_name))
         THEN write_config_with_formatting(
                  Del(file.sections, RemovedSectionName(profile_name)))
         ELSE file

\* Whether remove_profile writes the file.
remove_profile_writes(file, profile_name) ==
    file.exists /\ Has(file.sections, RemovedSectionName(profile_name))

remove_profile_raises(file, profile_name) ==
    /\ remove_profile_writes(file, profile_name)
    /\ write_config_raises(Del(file.sections, RemovedSectionName(profile_name)))

\* ------------------------------------------------------------ KeeManager

\* _read_profile_info raises inside its try: config.items() of the profile
\* section, or of the sso-session section it names, cannot be interpolated.
read_profile_info_fails(file, profile_name) ==
    /\ Has(file.sections, ProfileSection(profile_name))
    /\ LET raw == Get(file.sections, ProfileSection(profile_name)) IN
       \/ ItemsFail(raw)
       \/ /\ "sso_session" \in DOMAIN raw
          /\ Has(file.sections, SsoSessionSection(Interpolate(raw["sso_session"])))
          /\ ItemsFail(Get(file.sections,
                           SsoSessionSection(Interpolate(raw["sso_session"]))))

\* _read_profile_info: {} when the section is missing and when an exception
\* was caught (line 217).
read_profile_info(file, profile_name) ==
    IF ~Has(file.sections, ProfileSection(profile_name))
          \/ read_profile_info_fails(file, profile_name)
    THEN EmptyDict
    ELSE LET items == InterpolatedItems(Get(file.sections, ProfileSection(profile_name)))
             withSession ==
                 IF "sso_session" \in DOMAIN items
                 THEN LET session == items["sso_session"]
                          named == ("session_name" :> session) @@ items
                      IN IF Has(file.sections, SsoSessionSection(session))
                         THEN LET sso == InterpolatedItems(
                                            Get(file.sections, SsoSessionSection(session)))
                              IN ("sso_start_url" :> GetOr(sso, "sso_start_url", ""))
                                 @@ ("sso_region" :> GetOr(sso, "sso_region", ""))
                                 @@ named
                         ELSE named
                 ELSE ("session_name" :> GetOr(items, "sso_session", "")) @@ items
         IN SetDefault(SetDefault(SetDefault(SetDefault(withSession,
                "sso_start_url", ""), "sso_region", ""),
                "sso_account_id", "unknown"), "sso_role_name", "unknown")

\* `if not profile_info`: the empty dict is the missing section.
ProfileFound(profile_info) == DOMAIN profile_info # {}

AccountRecord(profile_name, profile_info) ==
    [profile_name |-> profile_name,
     sso_start_url |-> GetOr(profile_info, "sso_start_url", ""),
     sso_region |-> GetOr(profile_info, "sso_region", ""),
     sso_account_id |-> GetOr(profile_info, "sso_account_id", "unknown"),
     sso_role_name |-> GetOr(profile_info, "sso_role_name", "unknown"),
     session_name |-> GetOr(profile_info, "session_name", "")]

\* WithAccount that keeps a record that is there already.
WithAccountKeepsExisting(config, account_name, profile_info) ==
    IF Has(config.accounts, account_name)
    THEN config
    ELSE [config EXCEPT !.accounts =
            Put(@, account_name, AccountRecord(account_name, profile_info))]

\* add_account: config_data["accounts"][account_name] = {...}
WithAccount(config, account_name, profile_info) ==
    [config EXCEPT !.accounts =
        Put(@, account_name, AccountRecord(account_name, profile_info))]

\* WithoutAccount that clears current_account whatever it is.
WithoutAccountClearsCurrent(config, account_name) ==
    [accounts |-> Del(config.accounts, account_name), current_account |-> Null]

\* WithoutAccount that leaves current_account as it is.
WithoutAccountKeepsCurrent(config, account_name) ==
    [accounts |-> Del(config.accounts, account_name),
     current_account |-> config.current_account]

\* remove_account: del accounts[account_name], and current_account cleared
\* if it is the one removed.
WithoutAccount(config, account_name) ==
    [accounts |-> Del(config.accounts, account_name),
     current_account |-> IF config.current_account = account_name
                         THEN Null ELSE config.current_account]

WithCurrent(config, account) == [config EXCEPT !.current_account = account]

\* list_accounts that marks the first entry.
list_accounts_marks_first(config) ==
    [i \in DOMAIN config.accounts |->
        [name |-> config.accounts[i].name, is_current |-> i = 1]]

\* list_accounts: the names in stored order, each with its current mark.
list_accounts(config) ==
    [i \in DOMAIN config.accounts |->
        [name |-> config.accounts[i].name,
         is_current |-> config.accounts[i].name = config.current_account]]

\* SessionActive with the guard left out.
SessionActiveNever(environ) == FALSE

\* session guard: os.environ.get("KEE_ACTIVE_PROFILE") is truthy
SessionActive(environ) == environ.KEE_ACTIVE_PROFILE \notin {Unset, ""}

\* SubshellEnv that does not name the account.
SubshellEnvNoAccount(environ, account_name, profile_name) ==
    [environ EXCEPT !.AWS_PROFILE = profile_name, !.KEE_ACTIVE_PROFILE = "1"]

\* SubshellEnv that does not set the session marker.
SubshellEnvNoMarker(environ, account_name, profile_name) ==
    [environ EXCEPT !.AWS_PROFILE = profile_name,
                    !.KEE_CURRENT_ACCOUNT = account_name]

\* _start_subshell: the environment handed to the sub-shell
SubshellEnv(environ, account_name, profile_name) ==
    [environ EXCEPT !.AWS_PROFILE = profile_name,
                    !.KEE_CURRENT_ACCOUNT = account_name,
                    !.KEE_ACTIVE_PROFILE = "1"]

\* input(...).lower()
Lower(answer) == IF answer = "Y" THEN "y" ELSE answer

\* Affirmative that takes everything but "n" for a yes.
AffirmativeUnlessNo(answer) == Lower(answer) # "n"

\* input(...).lower() == "y"
Affirmative(answer) == Lower(answer) = "y"

\* ExitedZero that takes every exit code for success.
ExitedAny(outcome) == TRUE

\* result.returncode == 0 of a subprocess.run that returned
ExitedZero(outcome) == outcome = "ok"

\* ------------------------------------------------------------ the world

\* What the user can type at a prompt.
Answers == {"y", "Y", "n", "", "yes"}

\* How a subprocess.run of the external CLI can end: exit code 0, another
\* exit code, TimeoutExpired, or the executable cannot be started (OSError).
Outcomes == {"ok", "nonzero", "timeout", "nolaunch"}

\* Exceptions that _check_credentials and _sso_login catch:
\* (subprocess.TimeoutExpired, subprocess.SubprocessError).  An OSError of
\* the launch is neither.
CaughtBySubprocessHandlers(outcome) == outcome = "timeout"

\* The profile sections `aws configure sso` can leave in the credentials
\* file: the legacy shape with the SSO fields inline, and the shape that
\* names an sso-session section.
LegacyItems ==
    [sso_start_url |-> "https://one", sso_region |-> "eu-west-1",
     sso_account_id |-> "111", sso_role_name |-> "dev"]

SessionItems ==
    [sso_session |-> "corp", sso_account_id |-> "222", sso_role_name |-> "admin"]

CorpSession == [sso_start_url |-> "https://corp", sso_region |-> "us-east-1"]

\* The credentials file after a successful `aws configure sso --profile p`:
\* the installed AWS CLI wrote the profile in its shape (the older CLI the
\* legacy one, the newer one the sso-session one), or wrote nothing this
\* tool reads (the section is then missing unless an earlier run left it).
ConfiguredFiles(file, profile_name, cli) ==
    { IF cli = "legacy"
      THEN [exists |-> TRUE,
            sections |-> Put(file.sections, ProfileSection(profile_name), LegacyItems)]
      ELSE [exists |-> TRUE,
            sections |-> Put(Put(file.sections, SsoSessionSection("corp"), CorpSession),
                             ProfileSection(profile_name), SessionItems)],
      file }

BaseEnv ==
    [AWS_PROFILE |-> Unset, KEE_CURRENT_ACCOUNT |-> Unset, KEE_ACTIVE_PROFILE |-> Unset]

Commands == {"add", "use", "remove"}

Entry(command) ==
    CASE command = "add" -> "add_sso"
      [] command = "use" -> "use_begin"
      [] command = "remove" -> "rm_begin"

\* ---------------------------------------------------------------- state

VARIABLES
    regFile,   \* ~/.aws/kee.json
    awsFile,   \* ~/.aws/config
    proc,      \* per process slot: the invocation running in it, or its last one
    last,      \* the slot of the latest invocation started, when it was
               \* started while no other process was running (else 0)
    reg0,      \* regFile when process `last` was started
    aws0,      \* awsFile when process `last` was started
    started,   \* the number of invocations started so far
    cli        \* the AWS CLI installed: "legacy" or "session", the shape of
               \* the profiles it writes

vars == <<regFile, awsFile, proc, reg0, aws0, last, started, cli>>

\* proc[p]:
\*   pc            where the process is ("idle": not running)
\*   command, account_name   its command line
\*   environ       os.environ
\*   parent        the slot whose sub-shell it was started from (0: none)
\*   config_data, profile_info, profile_name   the local variables of that name
\*   chained       add_account was called from use_account
\*   ret           "true"/"false": what the command returned; "raised": an
\*                 exception reached main, exit status 1; "none": still running
\*   add_ret       what add_account returned ("none": not yet)
\*   done          what the invocation did so far: "load", "save" (the
\*                 registry), "aws_read", "aws_write" (the credentials file),
\*                 "save_failed" (save_config raised), "prompt", "warning"
\*                 (a warning printed), and the external
\*                 commands it ran: "configure",
\*                 "add_probe" (the probe of add_account), "probe" (the one
\*                 of use_account), "login", "shell" (the launch), and
\*                 "shell_end" (its wait returned)
\*   outcome       how its latest external command ended
\*   said          the answer to its latest prompt, in lower case
\*   child_env     the environment of its sub-shell, while that is alive
\*   printed       the entries list_accounts printed
IdleProc ==
    [pc |-> "idle", command |-> "add", account_name |-> "a", environ |-> BaseEnv,
     parent |-> 0, config_data |-> DefaultConfig, profile_info |-> EmptyDict,
     profile_name |-> Unset, chained |-> FALSE, add_ret |-> "none", ret |-> "none",
     done |-> {}, outcome |-> "none", said |-> "none", child_env |-> BaseEnv,
     printed |-> <<>>]

Init ==
    /\ regFile = NoRegistry
    /\ awsFile = NoAwsConfig
    /\ proc = [p \in Procs |-> IdleProc]
    /\ reg0 = NoRegistry
    /\ aws0 = NoAwsConfig
    /\ last = 0
    /\ started = 0
    /\ cli = "legacy"

Did(r, event) == [r EXCEPT !.done = @ \cup {event}]

\* The user was prompted and typed `answer`.
Asked(r, answer) ==
    [Did(r, "prompt") EXCEPT !.said = Lower(answer)]

\* An external command was run and ended with `outcome`.
Ran(r, command, outcome) == [Did(r, command) EXCEPT !.outcome = outcome]

\* The command returns `value` to main, or raises through it.
Return(r, value) ==
    [r EXCEPT !.pc = "idle", !.ret = value, !.config_data = DefaultConfig,
              !.profile_info = EmptyDict, !.profile_name = Unset, !.chained = FALSE]

\* AddReturn where use_account goes on after a failed add_account.
AddReturnIgnoresFailure(r, ok) ==
    LET r1 == [r EXCEPT !.add_ret = IF ok THEN "true" ELSE "false"]
    IN IF r.chained
       THEN [r1 EXCEPT !.pc = "use_ask_now", !.profile_info = EmptyDict]
       ELSE Return(r1, IF ok THEN "true" ELSE "false")

\* add_account returns: to main, or into use_account at line 313.
AddReturn(r, ok) ==
    LET r1 == [r EXCEPT !.add_ret = IF ok THEN "true" ELSE "false"]
    IN IF r.chained
       THEN IF ok THEN [r1 EXCEPT !.pc = "use_ask_now", !.profile_info = EmptyDict]
                  ELSE Return(r1, "false")
       ELSE Return(r1, IF ok THEN "true" ELSE "false")

\* Process p goes on as r.  What is remembered of a process that has ended
\* is its exit report, which is gone once any process takes a step.
Becomes(p, r) ==
    [s \in Procs |->
        IF s = p THEN r ELSE IF proc[s].pc = "idle" THEN IdleProc ELSE proc[s]]

Running(q) == proc[q].pc \notin {"idle", "shell"}

\* No other process is running: all are finished or blocked on a sub-shell.
Quiet(p) == \A q \in Procs \ {p} : ~Running(q)

\* main: a command line is run, from a plain terminal or inside the
\* sub-shell of a session that is alive, with an account name of `names`
\* (argparse takes any string, the empty one included).  It takes the first
\* free slot.
InvokeNamed(p, names) ==
    /\ proc[p].pc = "idle"
    /\ \A q \in Procs : q < p => proc[q].pc # "idle"
    /\ started < MaxInvocations
    /\ started' = started + 1
    /\ \E command \in Commands, account_name \in names,
          q \in {0} \cup {q \in Procs : proc[q].pc = "shell"} :
         proc' = Becomes(p,
            [IdleProc EXCEPT !.pc = Entry(command), !.command = command,
                             !.account_name = account_name,
                             !.environ = IF q = 0 THEN BaseEnv ELSE proc[q].child_env,
                             !.parent = q])
    /\ IF Quiet(p)
       THEN reg0' = regFile /\ aws0' = awsFile /\ last' = p
       ELSE reg0' = NoRegistry /\ aws0' = NoAwsConfig /\ last' = 0
    /\ UNCHANGED <<regFile, awsFile, cli>>

Invoke(p) == InvokeNamed(p, Names)

\* _check_credentials and _sso_login: "true"/"false" for what they return,
\* "raise" when the exception is not one they catch.
SubprocessResult(outcome) ==
    IF outcome \in {"ok", "nonzero"}
    THEN IF ExitedZero(outcome) THEN "true" ELSE "false"
    ELSE IF CaughtBySubprocessHandlers(outcome) THEN "false" ELSE "raise"

check_credentials(outcome) == SubprocessResult(outcome)

sso_login(outcome) == SubprocessResult(outcome)

\* How the wait for the sub-shell can end: the shell exits with some code,
\* or KeyboardInterrupt is raised in the wait.
ShellEnds == {"exit0", "exit1", "interrupt"}

\* _start_subshell: `except KeyboardInterrupt: pass`
ShellWaitReturns(how) == how \in {"exit0", "exit1"} \/ how = "interrupt"

\* ----------------------------------------------------------- use_account

\* Lines 290-300: the session guard, then the registry is loaded.
UseBegin(p) ==
    LET r == proc[p] IN
    /\ r.pc = "use_begin"
    /\ IF SessionActive(r.environ)
       THEN proc' = Becomes(p, Return(r, "false"))
       ELSE LET cfg == load_config(regFile)
                r1 == Did([r EXCEPT !.config_data = cfg], "load")
            IN proc' = Becomes(p,
                 IF Has(cfg.accounts, r.account_name)
                 THEN [r1 EXCEPT !.pc = "use_probe",
                          !.profile_name = Get(cfg.accounts, r.account_name).profile_name]
                 ELSE [r1 EXCEPT !.pc = "use_ask_add"])
    /\ UNCHANGED <<regFile, awsFile, reg0, aws0, last, started, cli>>

\* Lines 309-332: "Would you like to add account ... now?"
UseAskAdd(p) ==
    LET r == proc[p] IN
    /\ r.pc = "use_ask_add"
    /\ \E answer \in Answers :
         proc' = Becomes(p,
            IF Affirmative(answer)
            THEN [Asked(r, answer) EXCEPT !.pc = "add_sso", !.chained = TRUE]
            ELSE Return(Asked(r, answer), "false"))
    /\ UNCHANGED <<regFile, awsFile, reg0, aws0, last, started, cli>>

\* Lines 315-335: "Would you like to use account ... now?", the reload, and
\* accounts[account_name] (KeyError when the reloaded registry lacks it).
UseAskNow(p) ==
    LET r == proc[p] IN
    /\ r.pc = "use_ask_now"
    /\ \E answer \in Answers :
         proc' = Becomes(p,
            IF Affirmative(answer)
            THEN LET cfg == load_config(regFile)
                     r1 == Did(Asked([r EXCEPT !.config_data = cfg], answer), "load")
                 IN IF Has(cfg.accounts, r.account_name)
                    THEN [r1 EXCEPT !.pc = "use_probe",
                             !.profile_name = Get(cfg.accounts, r.account_name).profile_name]
                    ELSE Return(r1, "raised")
            ELSE Return(Asked(r, answer), "true"))
    /\ UNCHANGED <<regFile, awsFile, reg0, aws0, last, started, cli>>

\* Line 338: the identity probe.
UseProbe(p) ==
    LET r == proc[p] IN
    /\ r.pc = "use_probe"
    /\ \E outcome \in Outcomes :
         LET r1 == Ran(r, "probe", outcome)
             res == check_credentials(outcome)
         IN proc' = Becomes(p,
              CASE res = "true" -> [r1 EXCEPT !.pc = "use_activate"]
                [] res = "false" -> [r1 EXCEPT !.pc = "use_login"]
                [] OTHER -> Return(r1, "raised"))
    /\ UNCHANGED <<regFile, awsFile, reg0, aws0, last, started, cli>>

\* Lines 340-344: the interactive SSO login.
UseLogin(p) ==
    LET r == proc[p] IN
    /\ r.pc = "use_login"
    /\ \E outcome \in Outcomes :
         LET r1 == Ran(r, "login", outcome)
             res == sso_login(outcome)
         IN proc' = Becomes(p,
              CASE res = "true" -> [r1 EXCEPT !.pc = "use_activate"]
                [] res = "false" -> Return(r1, "false")
                [] OTHER -> Return(r1, "raised"))
    /\ UNCHANGED <<regFile, awsFile, reg0, aws0, last, started, cli>>

\* save_config raised in use_account or remove_account (lines 348, 355,
\* 270): open(config_file, "w") failed, the file is as it was, and nothing
\* between the call and main catches the OSError.
save_config_failed(r) == Return(Did(r, "save_failed"), "raised")

\* Lines 347-348: current_account is set and the registry saved.
UseActivate(p) ==
    LET r == proc[p]
        cfg == WithCurrent(r.config_data, r.account_name)
    IN
    /\ r.pc = "use_activate"
    /\ \E writable \in BOOLEAN :
         IF writable
         THEN /\ regFile' = save_config(cfg)
              /\ proc' = Becomes(p,
                    [Did(r, "save") EXCEPT
                        !.pc = "use_spawn", !.config_data = cfg])
         ELSE /\ regFile' = regFile
              /\ proc' = Becomes(p, save_config_failed(r))
    /\ UNCHANGED <<awsFile, reg0, aws0, last, started, cli>>

\* UseSpawn where the variables are set in os.environ itself.
UseSpawnSetsOwnEnv(p) ==
    LET r == proc[p]
        env == SubshellEnv(r.environ, r.account_name, r.profile_name)
    IN
    /\ r.pc = "use_spawn"
    /\ \E launched \in BOOLEAN :
         proc' = Becomes(p,
            IF launched
            THEN [Ran(r, "shell", "ok") EXCEPT
                    !.pc = "shell", !.environ = env, !.child_env = env]
            ELSE Return([Ran(r, "shell", "nolaunch") EXCEPT !.environ = env],
                        "raised"))
    /\ UNCHANGED <<regFile, awsFile, reg0, aws0, last, started, cli>>

\* Lines 351, 409-437: the sub-shell is started with its environment; an
\* OSError of the launch is not caught and reaches main.
UseSpawn(p) ==
    LET r == proc[p] IN
    /\ r.pc = "use_spawn"
    /\ \E launched \in BOOLEAN :
         proc' = Becomes(p,
            IF launched
            THEN [Ran(r, "shell", "ok") EXCEPT
                    !.pc = "shell",
                    !.child_env = SubshellEnv(r.environ, r.account_name, r.profile_name)]
            ELSE Return(Ran(r, "shell", "nolaunch"), "raised"))
    /\ UNCHANGED <<regFile, awsFile, reg0, aws0, last, started, cli>>

\* Lines 437-441: the wait for the sub-shell ends.  The commands run inside
\* the shell are over by then.
ShellEnd(p) ==
    LET r == proc[p] IN
    /\ r.pc = "shell"
    /\ \A q \in Procs : proc[q].parent = p => proc[q].pc = "idle"
    /\ \E how \in ShellEnds :
         proc' = Becomes(p,
            IF ShellWaitReturns(how)
            THEN [Ran(r, "shell_end", how) EXCEPT
                    !.pc = "use_clear", !.child_env = BaseEnv]
            ELSE Return([Ran(r, "shell_end", how) EXCEPT !.child_env = BaseEnv],
                        "raised"))
    /\ UNCHANGED <<regFile, awsFile, reg0, aws0, last, started, cli>>

\* Lines 354-357: current_account is cleared, the registry saved.
UseClear(p) ==
    LET r == proc[p]
        cfg == WithCurrent(r.config_data, Null)
    IN
    /\ r.pc = "use_clear"
    /\ \E writable \in BOOLEAN :
         IF writable
         THEN /\ regFile' = save_config(cfg)
              /\ proc' = Becomes(p, Return(Did(r, "save"), "true"))
         ELSE /\ regFile' = regFile
              /\ proc' = Becomes(p, save_config_failed(r))
    /\ UNCHANGED <<awsFile, reg0, aws0, last, started, cli>>

\* ----------------------------------------------------------- add_account

\* Lines 129-137: `aws configure sso --profile <name>`.  Every exception in
\* add_account is caught (lines 175-180) and makes it return False.
AddSso(p) ==
    LET r == proc[p] IN
    /\ r.pc = "add_sso"
    /\ \E outcome \in Outcomes :
         LET r1 == Ran(r, "configure", outcome) IN
         IF outcome \in {"ok", "nonzero"} /\ ExitedZero(outcome)
         THEN /\ awsFile' \in ConfiguredFiles(awsFile, r.account_name, cli)
              /\ proc' = Becomes(p, [r1 EXCEPT !.pc = "add_reformat"])
         ELSE /\ awsFile' = awsFile
              /\ proc' = Becomes(p, AddReturn(r1, FALSE))
    /\ UNCHANGED <<regFile, reg0, aws0, last, started, cli>>

\* Line 144: the credentials file is rewritten with normalized spacing.
AddReformat(p) ==
    LET r == proc[p] IN
    /\ r.pc = "add_reformat"
    /\ awsFile' = reformat_config_file(awsFile)
    /\ proc' = Becomes(p,
          LET r1 == IF awsFile.exists THEN Did(Did(r, "aws_read"), "aws_write") ELSE r
          IN IF reformat_config_raises(awsFile)
             THEN AddReturn(r1, FALSE)
             ELSE [r1 EXCEPT !.pc = "add_read"])
    /\ UNCHANGED <<regFile, reg0, aws0, last, started, cli>>

\* Lines 147-150: the profile section is read back.
AddRead(p) ==
    LET r == proc[p]
        info == read_profile_info(awsFile, r.account_name)
    IN
    /\ r.pc = "add_read"
    /\ proc' = Becomes(p,
          IF ProfileFound(info)
          THEN [Did(r, "aws_read") EXCEPT !.pc = "add_load", !.profile_info = info]
          ELSE AddReturn(Did(r, "aws_read"), FALSE))
    /\ UNCHANGED <<regFile, awsFile, reg0, aws0, last, started, cli>>

\* Lines 153-161: the registry is loaded and the record put into it.
AddLoad(p) ==
    LET r == proc[p] IN
    /\ r.pc = "add_load"
    /\ proc' = Becomes(p,
          [Did(r, "load") EXCEPT
              !.pc = "add_save",
              !.config_data = WithAccount(load_config(regFile), r.account_name,
                                          r.profile_info)])
    /\ UNCHANGED <<regFile, awsFile, reg0, aws0, last, started, cli>>

\* Line 162; the OSError of a save_config that cannot open the file is
\* caught by add_account's `except Exception` (lines 178-180).
AddSave(p) ==
    LET r == proc[p] IN
    /\ r.pc = "add_save"
    /\ \E writable \in BOOLEAN :
         IF writable
         THEN /\ regFile' = save_config(r.config_data)
              /\ proc' = Becomes(p,
                    [Did(r, "save") EXCEPT !.pc = "add_probe"])
         ELSE /\ regFile' = regFile
              /\ proc' = Becomes(p, AddReturn(Did(r, "save_failed"), FALSE))
    /\ UNCHANGED <<awsFile, reg0, aws0, last, started, cli>>

\* Lines 165-180: the identity probe, for the user's information; what
\* _check_credentials raises is caught by add_account's `except Exception`.
AddProbe(p) ==
    LET r == proc[p] IN
    /\ r.pc = "add_probe"
    /\ \E outcome \in Outcomes :
         proc' = Becomes(p,
            AddReturn(Ran(r, "add_probe", outcome), check_credentials(outcome) # "raise"))
    /\ UNCHANGED <<regFile, awsFile, reg0, aws0, last, started, cli>>

\* -------------------------------------------------------- remove_account

\* remove_account_found with the lookup left out.
remove_account_found_always(config, account_name) == TRUE

\* Line 250: `account_name not in accounts`, negated
remove_account_found(config, account_name) == Has(config.accounts, account_name)

\* Lines 247-252
RemoveBegin(p) ==
    LET r == proc[p]
        cfg == load_config(regFile)
        r1 == Did([r EXCEPT !.config_data = cfg], "load")
    IN
    /\ r.pc = "rm_begin"
    /\ proc' = Becomes(p,
          IF remove_account_found(cfg, r.account_name)
          THEN [r1 EXCEPT !.pc = "rm_confirm"]
          ELSE Return(r1, "false"))
    /\ UNCHANGED <<regFile, awsFile, reg0, aws0, last, started, cli>>

\* RemoveConfirm where the registry is loaded again after the confirmation
\* and the record deleted from what is on disk then.
RemoveConfirmReloads(p) ==
    LET r == proc[p] IN
    /\ r.pc = "rm_confirm"
    /\ \E answer \in Answers :
         IF Affirmative(answer)
         THEN LET cfg == WithoutAccount(load_config(regFile), r.account_name) IN
              \E writable \in BOOLEAN :
                IF writable
                THEN /\ regFile' = save_config(cfg)
                     /\ proc' = Becomes(p,
                           [Did(Asked(r, answer), "save") EXCEPT
                               !.pc = "rm_profile", !.config_data = cfg,
                               !.profile_name =
                                   Get(r.config_data.accounts,
                                       r.account_name).profile_name])
                ELSE /\ regFile' = regFile
                     /\ proc' = Becomes(p, save_config_failed(Asked(r, answer)))
         ELSE /\ regFile' = regFile
              /\ proc' = Becomes(p, Return(Asked(r, answer), "false"))
    /\ UNCHANGED <<awsFile, reg0, aws0, last, started, cli>>

\* Lines 255-270: the confirmation, and on "y" the record is deleted and the
\* registry saved.
RemoveConfirm(p) ==
    LET r == proc[p] IN
    /\ r.pc = "rm_confirm"
    /\ \E answer \in Answers :
         IF Affirmative(answer)
         THEN LET cfg == WithoutAccount(r.config_data, r.account_name) IN
              \E writable \in BOOLEAN :
                IF writable
                THEN /\ regFile' = save_config(cfg)
                     /\ proc' = Becomes(p,
                           [Did(Asked(r, answer), "save") EXCEPT
                               !.pc = "rm_profile", !.config_data = cfg,
                               !.profile_name =
                                   Get(r.config_data.accounts,
                                       r.account_name).profile_name])
                ELSE /\ regFile' = regFile
                     /\ proc' = Becomes(p, save_config_failed(Asked(r, answer)))
         ELSE /\ regFile' = regFile
              /\ proc' = Becomes(p, Return(Asked(r, answer), "false"))
    /\ UNCHANGED <<awsFile, reg0, aws0, last, started, cli>>

\* remove_profile_failed where the exception reaches main.
remove_profile_failed_raises(r) == Return(Did(r, "aws_read"), "raised")

\* Lines 279-285: remove_profile raised; `except Exception` prints the
\* warning and remove_account goes on to `return True`.
remove_profile_failed(r) == Return(Did(Did(r, "aws_read"), "warning"), "true")

\* Lines 273-285: the profile section is deleted from the credentials file.
\* The rewrite can fail: the file cannot be opened for writing (OSError), or
\* _write_config_with_formatting raises after it has truncated the file.
RemoveProfile(p) ==
    LET r == proc[p]
        r1 == IF ~awsFile.exists THEN r
              ELSE IF remove_profile_writes(awsFile, r.profile_name)
                   THEN Did(Did(r, "aws_read"), "aws_write")
                   ELSE Did(r, "aws_read")
    IN
    /\ r.pc = "rm_profile"
    /\ \E writable \in BOOLEAN :
         IF remove_profile_writes(awsFile, r.profile_name) /\ ~writable
         THEN /\ awsFile' = awsFile
              /\ proc' = Becomes(p, remove_profile_failed(r))
         ELSE /\ awsFile' = remove_profile(awsFile, r.profile_name)
              /\ proc' = Becomes(p,
                    IF remove_profile_raises(awsFile, r.profile_name)
                    THEN remove_profile_failed(Did(r, "aws_write"))
                    ELSE Return(r1, "true"))
    /\ UNCHANGED <<regFile, reg0, aws0, last, started, cli>>

\* ------------------------------------------------------------ the world

\* The AWS CLI is upgraded to the version that writes sso-session sections.
CliUpgrade ==
    /\ cli = "legacy"
    /\ cli' = "session"
    /\ UNCHANGED <<regFile, awsFile, proc, reg0, aws0, last, started>>

\* ------------------------------------------------------- specifications

Step(p) ==
    \/ UseBegin(p) \/ UseAskAdd(p) \/ UseAskNow(p) \/ UseProbe(p) \/ UseLogin(p)
    \/ UseActivate(p) \/ UseSpawn(p) \/ UseClear(p)
    \/ AddSso(p) \/ AddReformat(p) \/ AddRead(p) \/ AddLoad(p) \/ AddSave(p)
    \/ AddProbe(p)
    \/ RemoveBegin(p) \/ RemoveConfirm(p) \/ RemoveProfile(p)

\* One process runs at a time: a command is started, and a wait for a
\* sub-shell returns, only while no other process is running.  Sessions of
\* independent terminals, and commands run inside a session, are included.
QuietInvoke(p) == Quiet(p) /\ Invoke(p)

QuietShellEnd(p) == Quiet(p) /\ ShellEnd(p)

Next ==
    \/ \E p \in Procs : QuietInvoke(p) \/ QuietShellEnd(p) \/ Step(p)
    \/ CliUpgrade

Spec == Init /\ [][Next]_vars

\* The same with the account names of AccountNames on the command line: a
\* usual one and the empty string.  The credentials file the user starts
\* with is absent or already holds a section "[profile ]".
AccountNames == {"a", ""}

EmptyNameFile ==
    [exists |-> TRUE,
     sections |-> <<[name |-> ProfileSection(""), val |-> LegacyItems]>>]

InitNamed ==
    /\ regFile = NoRegistry
    /\ awsFile \in {NoAwsConfig, EmptyNameFile}
    /\ proc = [p \in Procs |-> IdleProc]
    /\ reg0 = NoRegistry
    /\ aws0 = NoAwsConfig
    /\ last = 0
    /\ started = 0
    /\ cli = "legacy"

QuietInvokeNamed(p) == Quiet(p) /\ InvokeNamed(p, AccountNames)

NextNamed == \E p \in Procs : QuietInvokeNamed(p) \/ QuietShellEnd(p) \/ Step(p)

SpecNamed == InitNamed /\ [][NextNamed]_vars

\* Concurrent invocations: the processes interleave freely (with the AWS CLI
\* that is installed at the start).
NextRace == \E p \in Racers : Invoke(p) \/ ShellEnd(p) \/ Step(p)

SpecRace == Init /\ [][NextRace]_vars

\* -------------------------------------------- the operations on their own
\* The operations of KeeConfig, AWSConfigManager and KeeManager called one
\* after the other on files and in environments the tool finds, as the unit
\* tests call them.  proc[1] is the latest call and proc[2] the call before
\* it: `command` is the operation, `ret` is "returned", "raised" or what the
\* operation printed, config_data the argument of a save and the result of
\* a load.

\* Number of calls in one behaviour.
MaxApiCalls == 2

\* A record as add_account stores it.
StoredRecord(name) ==
    AccountRecord(name, read_profile_info(
        [exists |-> TRUE,
         sections |-> <<[name |-> ProfileSection(name), val |-> LegacyItems]>>],
        name))

StoredAccounts ==
    {<<>>} \cup {<<[name |-> n, val |-> StoredRecord(n)]>> : n \in Names}
           \cup {<<[name |-> nm[1], val |-> StoredRecord(nm[1])],
                   [name |-> nm[2], val |-> StoredRecord(nm[2])]>> :
                     nm \in {pair \in Names \X Names : pair[1] # pair[2]}}

\* The well-formed registry states: any accounts, current_account null or a
\* name.
WellFormedStates ==
    {[accounts |-> acc, current_account |-> cur] :
        acc \in StoredAccounts, cur \in {Null} \cup Names}

\* The registry files: none, one that save_config wrote, or a damaged one.
RegistryFiles ==
    {NoRegistry} \cup {save_config(config) : config \in WellFormedStates}
                 \cup {DamagedRegistry(damage) : damage \in Damages}

\* Values of an item of the credentials file: plain text, and text with
\* percent signs.
ItemValues == {"eu-west-1"} \cup {PercentRun(n) : n \in {1, 2, MaxPercents}}

\* Names of profiles: the account names, the empty name, and the name the
\* AWS CLI keeps in the section [default].
ProfileNames == Names \cup {"", "default"}

\* A profile section that names an sso-session and has a start URL inline.
SessionItemsWithUrl ==
    [sso_session |-> "corp", sso_start_url |-> "https://inline", sso_account_id |-> "222"]

\* Credentials files with the two shapes of profile, an sso-session section
\* before or after the profile, one with a percent sign in it, a profile
\* whose sso-session section is missing, and the sections [default],
\* [profile default] and [profile ].
ShapedFiles ==
    {[exists |-> TRUE, sections |-> secs] : secs \in
        {<<[name |-> ProfileSection("a"), val |-> LegacyItems]>>,
         <<[name |-> ProfileSection("a"), val |-> [sso_account_id |-> "111"]]>>,
         <<[name |-> ProfileSection("a"), val |-> SessionItems],
           [name |-> SsoSessionSection("corp"), val |-> CorpSession]>>,
         <<[name |-> SsoSessionSection("corp"), val |-> [sso_region |-> "us-east-1"]],
           [name |-> ProfileSection("b"), val |-> LegacyItems],
           [name |-> ProfileSection("a"), val |-> SessionItemsWithUrl]>>,
         <<[name |-> ProfileSection("a"), val |-> SessionItems],
           [name |-> SsoSessionSection("corp"),
            val |-> [sso_start_url |-> PercentRun(2), sso_region |-> "us-east-1"]]>>,
         <<[name |-> ProfileSection("a"), val |-> SessionItemsWithUrl]>>,
         <<[name |-> "default", val |-> [region |-> "eu-west-1"]],
           [name |-> ProfileSection("default"), val |-> LegacyItems]>>,
         <<[name |-> ProfileSection(""), val |-> LegacyItems]>>}}

\* The credentials files: none, an empty one, files with one or two profile
\* sections, and the shaped ones.
CredentialFiles ==
    ShapedFiles \cup {NoAwsConfig, [exists |-> TRUE, sections |-> <<>>]}
    \cup {[exists |-> TRUE,
           sections |-> <<[name |-> ProfileSection("a"),
                           val |-> [sso_region |-> v]]>>] : v \in ItemValues}
    \cup {[exists |-> TRUE,
           sections |-> <<[name |-> ProfileSection("a"), val |-> [sso_region |-> v]],
                          [name |-> ProfileSection("b"), val |-> [sso_region |-> w]]>>] :
             v \in ItemValues, w \in ItemValues}

\* The environments a `kee current` can find: the variables kee sets in a
\* sub-shell are there or not, each on its own (the user can unset one).
Environments ==
    {[AWS_PROFILE |-> Unset, KEE_CURRENT_ACCOUNT |-> acc, KEE_ACTIVE_PROFILE |-> mark] :
        acc \in {Unset} \cup Names, mark \in {Unset, "1"}}

CurrentProfile(name) == "Current profile: " \o name

MarkerWithoutName == "Active Kee profile but account name not found."

NoProfileActive == "No profile is currently active."

\* Whether current_account loads the registry.
current_account_loads(environ) == ~SessionActive(environ)

\* current_account that reports the registry's field whatever the environment.
current_account_of_registry(environ, file) ==
    IF load_config_raises(file) \/ load_config(file) = JsonArray
    THEN "raised"
    ELSE IF load_config(file).current_account \notin {Null, ""}
         THEN CurrentProfile(load_config(file).current_account)
         ELSE NoProfileActive

\* current_account: what it prints ("raised": load_config raised, or
\* config_data.get did because the JSON is not an object).
current_account(environ, file) ==
    IF SessionActive(environ)
    THEN IF environ.KEE_CURRENT_ACCOUNT \notin {Unset, ""}
         THEN CurrentProfile(environ.KEE_CURRENT_ACCOUNT)
         ELSE MarkerWithoutName
    ELSE IF load_config_raises(file) \/ load_config(file) = JsonArray
         THEN "raised"
         ELSE IF load_config(file).current_account \notin {Null, ""}
              THEN CurrentProfile(load_config(file).current_account)
              ELSE NoProfileActive

InitApi ==
    /\ regFile \in RegistryFiles
    /\ awsFile \in CredentialFiles
    /\ proc = [p \in Procs |-> IdleProc]
    /\ reg0 = regFile
    /\ aws0 = awsFile
    /\ last = 0
    /\ started = 0
    /\ cli = "legacy"

\* The call `call` is made: the files before it are kept in reg0 and aws0.
Called(call) ==
    /\ started < MaxApiCalls
    /\ started' = started + 1
    /\ proc' = [p \in Procs |-> IF p = 1 THEN call ELSE proc[p - 1]]
    /\ reg0' = regFile
    /\ aws0' = awsFile
    /\ last' = 1
    /\ cli' = cli

\* KeeConfig.load_config()
ApiLoad ==
    /\ Called(IF load_config_raises(regFile)
              THEN [IdleProc EXCEPT !.command = "load", !.done = {"load"},
                                    !.ret = "raised"]
              ELSE [IdleProc EXCEPT !.command = "load", !.done = {"load"},
                                    !.ret = "returned",
                                    !.config_data = load_config(regFile)])
    /\ UNCHANGED <<regFile, awsFile>>

\* KeeConfig.save_config(config)
ApiSave ==
    \E config \in WellFormedStates :
        /\ Called([IdleProc EXCEPT !.command = "save", !.done = {"save"},
                                   !.ret = "returned", !.config_data = config])
        /\ regFile' = save_config(config)
        /\ awsFile' = awsFile

\* AWSConfigManager.reformat_config_file()
ApiReformat ==
    /\ Called([IdleProc EXCEPT
                 !.command = "reformat",
                 !.done = IF awsFile.exists THEN {"aws_read", "aws_write"} ELSE {},
                 !.ret = IF reformat_config_raises(awsFile)
                         THEN "raised" ELSE "returned"])
    /\ awsFile' = reformat_config_file(awsFile)
    /\ regFile' = regFile

\* KeeManager.current_account()
ApiCurrent ==
    \E environ \in Environments :
        /\ Called([IdleProc EXCEPT
                     !.command = "current", !.environ = environ,
                     !.done = IF current_account_loads(environ) THEN {"load"} ELSE {},
                     !.ret = current_account(environ, regFile)])
        /\ UNCHANGED <<regFile, awsFile>>

\* AWSConfigManager.remove_profile(profile_name)
ApiRemoveProfile ==
    \E profile_name \in ProfileNames :
        /\ Called([IdleProc EXCEPT
                     !.command = "remove_profile", !.account_name = profile_name,
                     !.profile_name = profile_name,
                     !.done = IF ~awsFile.exists THEN {}
                              ELSE IF remove_profile_writes(awsFile, profile_name)
                                   THEN {"aws_read", "aws_write"} ELSE {"aws_read"},
                     !.ret = IF remove_profile_raises(awsFile, profile_name)
                             THEN "raised" ELSE "returned"])
        /\ awsFile' = remove_profile(awsFile, profile_name)
        /\ regFile' = regFile

\* KeeManager._read_profile_info(profile_name)
ApiReadProfile ==
    \E profile_name \in ProfileNames :
        /\ Called([IdleProc EXCEPT
                     !.command = "read_profile_info", !.account_name = profile_name,
                     !.profile_name = profile_name,
                     !.done = IF awsFile.exists THEN {"aws_read"} ELSE {},
                     !.ret = "returned",
                     !.profile_info = read_profile_info(awsFile, profile_name)])
        /\ UNCHANGED <<regFile, awsFile>>

\* list_accounts raises: load_config does, or config_data.get does because
\* the JSON is not an object.
list_accounts_raises(file) ==
    load_config_raises(file) \/ load_config(file) = JsonArray

\* KeeManager.list_accounts()
ApiList ==
    /\ Called(IF list_accounts_raises(regFile)
              THEN [IdleProc EXCEPT !.command = "list", !.done = {"load"},
                                    !.ret = "raised"]
              ELSE [IdleProc EXCEPT !.command = "list", !.done = {"load"},
                                    !.ret = "returned",
                                    !.printed = list_accounts(load_config(regFile))])
    /\ UNCHANGED <<regFile, awsFile>>

NextApi ==
    \/ ApiLoad \/ ApiSave \/ ApiReformat \/ ApiCurrent
    \/ ApiRemoveProfile \/ ApiReadProfile \/ ApiList

SpecApi == InitApi /\ [][NextApi]_vars

\* ---------------------------------------------------------------- claims

ExternalCommands == {"configure", "add_probe", "probe", "login", "shell"}

\* Process p is the one the snapshots reg0 and aws0 were taken for.
Latest(p) == last = p

Ended(p) == proc[p].pc = "idle" /\ proc[p].ret # "none"

\* The environment of process p carries the active-session marker.
MarkerSet(p) == proc[p].environ.KEE_ACTIVE_PROFILE \notin {Unset, ""}

\* C1: a use invoked with the session marker in its environment returns
\* false and has done nothing: no registry load or save, no prompt, no
\* external command, no sub-shell; both files are as they were.
C1_GuardRefuses ==
    \A p \in Procs :
        (proc[p].command = "use" /\ MarkerSet(p) /\ proc[p].pc # "use_begin")
        => /\ proc[p].pc = "idle"
           /\ proc[p].ret = "false"
           /\ proc[p].done = {}
           /\ Latest(p) => (regFile = reg0 /\ awsFile = aws0)

\* A use of a known account, run inside a live session, was refused.
C1_Witness ==
    \E p \in Procs :
        /\ proc[p].command = "use" /\ MarkerSet(p)
        /\ Ended(p) /\ proc[p].ret = "false"
        /\ Has(regFile.accounts, proc[p].account_name)

\* C2: every use that reached activation (it went on to start the
\* sub-shell) ends having cleared current_account and returns true, however
\* the sub-shell step ended.
C2_UseEndsDeactivated ==
    \A p \in Procs :
        (proc[p].command = "use" /\ Ended(p) /\ "shell" \in proc[p].done)
        => (proc[p].ret = "true" /\ regFile.current_account = Null)

\* C3: the registry names the account when the sub-shell is about to start;
\* the sub-shell is started once, with the marker, the account and the
\* record's profile_name in its environment; the use returns (after its
\* clearing save) only after the wait for the sub-shell has returned.
C3_ActivationState ==
    \A p \in Procs :
        proc[p].command = "use" =>
            /\ proc[p].pc = "use_spawn" =>
                  (regFile.exists /\ regFile.current_account = proc[p].account_name)
            /\ proc[p].pc = "shell" =>
                  /\ proc[p].child_env.KEE_ACTIVE_PROFILE = "1"
                  /\ proc[p].child_env.KEE_CURRENT_ACCOUNT = proc[p].account_name
                  /\ proc[p].child_env.AWS_PROFILE =
                        Get(proc[p].config_data.accounts,
                            proc[p].account_name).profile_name
                  /\ "shell_end" \notin proc[p].done
            /\ proc[p].pc = "use_clear" => "shell_end" \in proc[p].done
            /\ (Ended(p) /\ proc[p].ret = "true" /\ "shell" \in proc[p].done) =>
                  "shell_end" \in proc[p].done

\* A step that starts a sub-shell is taken by a process that saved the
\* activation and has started none before; a step that clears
\* current_account after a session is taken once the wait has returned,
\* and the use writes nothing between the start of the sub-shell and then.
C3_ActivationSteps ==
    \A p \in Procs :
        /\ (proc[p].pc # "shell" /\ proc'[p].pc = "shell") =>
              /\ proc[p].pc = "use_spawn"
              /\ "shell" \notin proc[p].done
              /\ "save" \in proc[p].done
              /\ regFile.current_account = proc[p].account_name
        /\ (proc[p].pc = "use_clear" /\ proc'[p].pc # "use_clear") =>
              /\ "shell_end" \in proc[p].done
              /\ "save_failed" \notin proc'[p].done =>
                    regFile'.current_account = Null
        /\ (proc[p].command = "use" /\ proc[p].pc \notin {"idle", "use_clear"}
              /\ "shell" \in proc[p].done /\ proc'[p] # proc[p]) =>
                 regFile' = regFile

C3_ActivationOrdering == [](C3_ActivationState) /\ [][C3_ActivationSteps]_vars

\* A use went through a session and returned.
C3_Witness ==
    \E p \in Procs :
        /\ proc[p].command = "use" /\ Ended(p) /\ proc[p].ret = "true"
        /\ "shell_end" \in proc[p].done
        /\ regFile.current_account = Null

\* C4: every content of the registry file has current_account null or a key
\* of accounts.
C4_CurrentIsKnown ==
    regFile.current_account = Null \/ Has(regFile.accounts, regFile.current_account)

\* While a session for an account is alive, a confirmed remove of that
\* account has saved the registry.
C4_Witness ==
    \E p, q \in Procs :
        /\ proc[p].pc = "shell"
        /\ proc[q].command = "remove" /\ proc[q].account_name = proc[p].account_name
        /\ "save" \in proc[q].done
        /\ regFile.exists

\* C5, as claimed: at most one sub-shell is alive at a time.
C5_AtMostOneSession == Cardinality({p \in Procs : proc[p].pc = "shell"}) <= 1

\* C5, amended: sessions do not nest.  A use run inside a live session never
\* starts a sub-shell: every process that starts one, or waits for one, was
\* started outside every session.
C5_SessionsDoNotNest ==
    \A p \in Procs :
        proc[p].pc \in {"use_activate", "use_spawn", "shell", "use_clear"}
        => (proc[p].parent = 0 /\ ~MarkerSet(p))

\* A use run inside a session that is still alive was refused.
C5_Witness ==
    \E p, q \in Procs :
        /\ proc[p].pc = "shell"
        /\ proc[q].parent = p /\ proc[q].command = "use"
        /\ Ended(q) /\ proc[q].ret = "false"

\* C6: whenever no session is alive and no invocation is in progress,
\* current_account is null; while a session for an account is alive,
\* current_account is that account.
C6_CurrentTracksSession ==
    /\ (\A p \in Procs : proc[p].pc = "idle") => regFile.current_account = Null
    /\ \A p \in Procs :
          proc[p].pc = "shell" => regFile.current_account = proc[p].account_name

\* The identity probe of use_account has just failed: it ran, nothing ran
\* after it, and it did not exit with code 0.
ProbeJustFailed(p) ==
    /\ "probe" \in proc[p].done
    /\ "login" \notin proc[p].done /\ "shell" \notin proc[p].done
    /\ proc[p].outcome # "ok"

\* The login of use_account has just failed.
LoginJustFailed(p) ==
    /\ "login" \in proc[p].done /\ "shell" \notin proc[p].done
    /\ proc[p].outcome # "ok"

\* C7: in a use, the login is attempted exactly when the probe failed (exit
\* code, timeout or launch failure); when the login fails too (exit code,
\* timeout or launch failure) the use returns false, starts no sub-shell and
\* leaves the registry file as it was when the use was called, also when it
\* went through add first.
C7_LoginContract ==
    \A p \in Procs :
        proc[p].command = "use" =>
            /\ ProbeJustFailed(p) => proc[p].pc = "use_login"
            /\ proc[p].pc = "use_login" => ProbeJustFailed(p)
            /\ LoginJustFailed(p) =>
                  /\ Ended(p) /\ proc[p].ret = "false"
                  /\ Latest(p) => regFile = reg0

\* Process p is a use of an account its first load did not find.
UnknownAccountUse(p) ==
    /\ proc[p].command = "use"
    /\ "prompt" \in proc[p].done
    /\ Latest(p) /\ ~Has(reg0.accounts, proc[p].account_name)

\* C8: a use of an unknown account.  Declining the offer to add: false, no
\* external command, both files unchanged.  The chained add failed: false.
\* Add succeeded and "use it now": the use goes on to the credential check
\* with the registry reloaded, which holds the record add persisted.  Add
\* succeeded and deferred: the use returns with no sub-shell started and
\* current_account unchanged.
C8_UnknownAccount ==
    \A p \in Procs :
        UnknownAccountUse(p) =>
            /\ (proc[p].add_ret = "none" /\ proc[p].said # "y") =>
                  /\ Ended(p) /\ proc[p].ret = "false"
                  /\ proc[p].done \cap ExternalCommands = {}
                  /\ regFile = reg0 /\ awsFile = aws0
            /\ proc[p].add_ret = "false" => (Ended(p) /\ proc[p].ret = "false")
            /\ (proc[p].add_ret = "true" /\ proc[p].said # "y") =>
                  /\ Ended(p) /\ proc[p].ret = "true"
                  /\ "shell" \notin proc[p].done
                  /\ regFile.current_account = reg0.current_account
            /\ (proc[p].add_ret = "true" /\ proc[p].said = "y"
                   /\ proc[p].pc # "use_ask_now") =>
                  /\ "load" \in proc[p].done
                  /\ Ended(p) => "probe" \in proc[p].done
                  /\ proc[p].pc = "use_probe" =>
                        /\ proc[p].config_data = load_config(regFile)
                        /\ Has(proc[p].config_data.accounts, proc[p].account_name)
                        /\ proc[p].profile_name = proc[p].account_name

\* A use of an unknown account added it and went on to its session.
C8_Witness ==
    \E p \in Procs :
        /\ UnknownAccountUse(p)
        /\ proc[p].add_ret = "true" /\ proc[p].said = "y"
        /\ proc[p].pc = "shell"

\* add_account has just returned `value` in process p, called from main or
\* from use_account.
AddJustReturned(p, value) ==
    /\ Latest(p)
    /\ proc[p].add_ret = value
    /\ \/ proc[p].command = "add" /\ Ended(p)
       \/ proc[p].command = "use" /\ proc[p].pc = "use_ask_now"
       \/ proc[p].command = "use" /\ Ended(p) /\ value = "false"

\* C9: after a successful add(name) the registry file has a record under
\* name made from the profile section of the credentials file, the other
\* records and current_account are as before the call, and list() shows name.
C9_AddPersists ==
    \A p \in Procs :
        AddJustReturned(p, "true") =>
            LET name == proc[p].account_name
                items == Get(awsFile.sections, ProfileSection(name))
                rec == Get(regFile.accounts, name)
                listed == list_accounts(load_config(regFile))
            IN /\ regFile.exists
               /\ Has(regFile.accounts, name)
               /\ Has(awsFile.sections, ProfileSection(name))
               /\ rec.profile_name = name
               /\ rec.sso_account_id = items["sso_account_id"]
               /\ rec.sso_role_name = items["sso_role_name"]
               /\ rec.session_name = GetOr(items, "sso_session", "")
               /\ KeysOf(regFile.accounts) = KeysOf(reg0.accounts) \cup {name}
               /\ \A m \in KeysOf(reg0.accounts) \ {name} :
                     Get(regFile.accounts, m) = Get(reg0.accounts, m)
               /\ regFile.current_account = reg0.current_account
               /\ \E i \in DOMAIN listed : listed[i].name = name

\* A successful add replaced the record of an account that was there, with
\* another account in the registry.
C9_Witness ==
    \E p \in Procs :
        /\ AddJustReturned(p, "true")
        /\ Has(reg0.accounts, proc[p].account_name)
        /\ Get(reg0.accounts, proc[p].account_name)
              # Get(regFile.accounts, proc[p].account_name)
        /\ KeysOf(reg0.accounts) # {proc[p].account_name}

\* C10: an add that returns false because the SSO configuration exited
\* non-zero or timed out (or could not be launched), or because the profile
\* section is missing after it (or because the registry could not be
\* written), leaves the registry file as it was before the call; in the
\* first cases the tool has not written the credentials file.
C10_FailedAddKeepsRegistry ==
    \A p \in Procs :
        (AddJustReturned(p, "false") /\ "add_probe" \notin proc[p].done) =>
            /\ proc[p].outcome \in {"nonzero", "timeout", "nolaunch"} =>
                  /\ regFile = reg0 /\ awsFile = aws0
                  /\ "aws_write" \notin proc[p].done
                  /\ "save" \notin proc[p].done
            /\ proc[p].outcome = "ok" =>
                  /\ regFile = reg0
                  /\ \/ ~Has(awsFile.sections, ProfileSection(proc[p].account_name))
                     \/ "save_failed" \in proc[p].done

\* An add failed for a missing section with accounts in the registry.
C10_Witness ==
    \E p \in Procs :
        /\ AddJustReturned(p, "false") /\ "add_probe" \notin proc[p].done
        /\ proc[p].outcome = "ok" /\ "save_failed" \notin proc[p].done
        /\ reg0.accounts # <<>>

\* C11: an add whose registry save completed returns true, however the
\* identity probe run after the save ended (exit 0, another exit code,
\* timeout, failure to launch).
C11_AddTrueOncePersisted ==
    \A p \in Procs :
        (proc[p].add_ret # "none" /\ "add_probe" \in proc[p].done) =>
            proc[p].add_ret = "true"

\* Process p runs, or has just run, remove for a name that was (known) or
\* was not (~known) a key of the registry when it was called.
RemoveOf(p, known) ==
    /\ proc[p].command = "remove" /\ Latest(p)
    /\ proc[p].pc # "rm_begin"
    /\ Has(reg0.accounts, proc[p].account_name) = known

\* C12: remove of a name that is not in the registry returns false at once:
\* it has loaded the registry and done nothing else (no prompt), and both
\* files are as they were.
C12_RemoveUnknown ==
    \A p \in Procs :
        RemoveOf(p, FALSE) =>
            /\ Ended(p) /\ proc[p].ret = "false"
            /\ proc[p].done = {"load"}
            /\ proc[p].said = "none"
            /\ regFile = reg0 /\ awsFile = aws0

\* A remove of an unknown name returned, with another account registered.
C12_Witness ==
    \E p \in Procs :
        /\ RemoveOf(p, FALSE) /\ Ended(p)
        /\ reg0.accounts # <<>>
        /\ aws0.exists

\* C13: remove of a known name with an answer other than "y"/"Y" returns
\* false, has not saved the registry and has neither read nor written the
\* credentials file; both files are as they were.
C13_RemoveDeclined ==
    \A p \in Procs :
        (RemoveOf(p, TRUE) /\ proc[p].said \notin {"none", "y"}) =>
            /\ Ended(p) /\ proc[p].ret = "false"
            /\ proc[p].done = {"load", "prompt"}
            /\ regFile = reg0 /\ awsFile = aws0

\* A remove was answered "yes", which is not the affirmative "y".
C13_Witness ==
    \E p \in Procs :
        /\ RemoveOf(p, TRUE) /\ proc[p].said = "yes"
        /\ Ended(p)

\* The registry after a confirmed remove by process p: the key is gone, the
\* other records are as before, and current_account is null if it was the
\* name removed and is unchanged if not.
C14_RegistryAfter(p) ==
    LET name == proc[p].account_name IN
    /\ regFile.exists
    /\ KeysOf(regFile.accounts) = KeysOf(reg0.accounts) \ {name}
    /\ \A m \in KeysOf(regFile.accounts) :
          Get(regFile.accounts, m) = Get(reg0.accounts, m)
    /\ reg0.current_account = name => regFile.current_account = Null
    /\ reg0.current_account # name =>
          regFile.current_account = reg0.current_account

C14_RemoveState ==
    \A p \in Procs :
        (RemoveOf(p, TRUE) /\ proc[p].said = "y"
            /\ "save_failed" \notin proc[p].done) =>
            /\ C14_RegistryAfter(p)
            /\ "save" \in proc[p].done
            /\ proc[p].pc = "rm_profile" =>
                  /\ awsFile = aws0
                  /\ proc[p].done \cap {"aws_read", "aws_write"} = {}
                  /\ proc[p].profile_name =
                        Get(reg0.accounts, proc[p].account_name).profile_name
            /\ (Ended(p) /\ "warning" \notin proc[p].done) =>
                  /\ awsFile.exists = aws0.exists
                  /\ awsFile.sections =
                        Del(aws0.sections,
                            "profile " \o
                               Get(reg0.accounts, proc[p].account_name).profile_name)

\* A remove writes the registry in one step only, the one that follows the
\* confirmation, before it has touched the credentials file; it writes the
\* credentials file only after that.
C14_RemoveSteps ==
    \A p \in Procs :
        (proc[p].command = "remove" /\ proc[p].pc # "idle"
            /\ proc'[p] # proc[p]) =>
            /\ regFile' # regFile =>
                  /\ proc[p].pc = "rm_confirm" /\ proc'[p].pc = "rm_profile"
                  /\ "save" \notin proc[p].done
                  /\ proc[p].done \cap {"aws_read", "aws_write"} = {}
                  /\ awsFile' = awsFile
            /\ proc[p].pc # "rm_confirm" => regFile' = regFile
            /\ awsFile' # awsFile =>
                  (proc[p].pc = "rm_profile" /\ "save" \in proc[p].done)

\* C14: a confirmed remove of a known account: the registry written has lost
\* the key and nothing else, current_account is cleared exactly when it was
\* the name removed, the registry is written once and before the credentials
\* file is touched, and the section deleted is the one of the removed
\* record's profile_name.
C14_ConfirmedRemove == [](C14_RemoveState) /\ [][C14_RemoveSteps]_vars

\* A confirmed remove deleted the section of an account while current_account
\* named another one.
C14_Witness ==
    \E p \in Procs :
        /\ RemoveOf(p, TRUE) /\ Ended(p) /\ proc[p].ret = "true"
        /\ "aws_write" \in proc[p].done
        /\ reg0.current_account \notin {Null, proc[p].account_name}

\* C15: when the deletion of the section failed after the registry was
\* saved (the remove has ended and the section is still there), the remove
\* returned true with a warning, and the registry stays without the record.
C15_RemovePartialFailure ==
    \A p \in Procs :
        (RemoveOf(p, TRUE) /\ proc[p].said = "y" /\ proc[p].pc = "idle"
            /\ "save" \in proc[p].done
            /\ Has(awsFile.sections, ProfileSection(proc[p].account_name))) =>
            /\ proc[p].ret = "true"
            /\ "warning" \in proc[p].done
            /\ ~Has(regFile.accounts, proc[p].account_name)
            /\ awsFile = aws0

\* The deletion of the section failed in a remove.
C15_Witness ==
    \E p \in Procs :
        /\ RemoveOf(p, TRUE) /\ proc[p].said = "y" /\ Ended(p)
        /\ "save" \in proc[p].done
        /\ "warning" \in proc[p].done
        /\ Has(awsFile.sections, ProfileSection(proc[p].account_name))
        /\ regFile.accounts # <<>>

\* The latest call and the call before it.
LatestCall == proc[1]

PreviousCall == proc[2]

\* C16: current() with the marker in the environment reports the account the
\* environment names (or that the name is not there) without loading the
\* registry; without the marker it reports current_account of the registry
\* file, or that no profile is active when that is null or the file is not
\* there.  It leaves the registry file as it is.
C16_Current ==
    LatestCall.command = "current" =>
        LET environ == LatestCall.environ IN
        /\ regFile = reg0
        /\ environ.KEE_ACTIVE_PROFILE = "1" =>
              /\ "load" \notin LatestCall.done
              /\ environ.KEE_CURRENT_ACCOUNT # Unset =>
                    LatestCall.ret = CurrentProfile(environ.KEE_CURRENT_ACCOUNT)
              /\ environ.KEE_CURRENT_ACCOUNT = Unset =>
                    LatestCall.ret = MarkerWithoutName
        /\ (environ.KEE_ACTIVE_PROFILE = Unset /\ ~Damaged(regFile)) =>
              /\ (regFile.exists /\ regFile.current_account # Null) =>
                    LatestCall.ret = CurrentProfile(regFile.current_account)
              /\ (~regFile.exists \/ regFile.current_account = Null) =>
                    LatestCall.ret = NoProfileActive

\* current() in a session for one account, while the registry names another.
C16_Witness ==
    /\ LatestCall.command = "current"
    /\ LatestCall.environ.KEE_ACTIVE_PROFILE = "1"
    /\ LatestCall.environ.KEE_CURRENT_ACCOUNT = "a"
    /\ ~Damaged(regFile) /\ regFile.current_account = "b"
    /\ LatestCall.ret = CurrentProfile("a")

\* The identity probe of use_account has just ended.
ProbeJustRan(p) ==
    /\ proc[p].command = "use"
    /\ "probe" \in proc[p].done
    /\ proc[p].done \cap {"login", "shell"} = {}
    /\ proc[p].pc \in {"idle", "use_login", "use_activate"}

\* C17: _check_credentials returns to use_account for every outcome of the
\* probe, true exactly for exit code 0: the use goes on to the activation
\* (true) or to the login (false).
C17_CheckNeverRaises ==
    \A p \in Procs :
        ProbeJustRan(p) =>
            \/ proc[p].pc = "use_activate" /\ proc[p].outcome = "ok"
            \/ proc[p].pc = "use_login" /\ proc[p].outcome # "ok"

\* C18: load() of a registry file that is not there or is corrupt returns
\* the empty default, raises nothing, and leaves the file as it is.
C18_LoadDefaults ==
    (LatestCall.command = "load" /\ (~reg0.exists \/ Damaged(reg0))) =>
        /\ LatestCall.ret = "returned"
        /\ LatestCall.config_data = [accounts |-> <<>>, current_account |-> Null]
        /\ regFile = reg0

C20_ReformatIdempotent ==
    (LatestCall.command = "reformat" /\ PreviousCall.command = "reformat") =>
        awsFile = aws0

\* C21: remove_profile(p) leaves the file without the section of profile p
\* and with every other section as it was, keys, values and order; when the
\* file is not there or has no such section, nothing is written; and it
\* raises nothing.
C21_RemoveProfileExact ==
    (LatestCall.command = "remove_profile" /\ LatestCall.account_name \in Names) =>
        LET section == "profile " \o LatestCall.account_name IN
        /\ LatestCall.ret = "returned"
        /\ ~Has(awsFile.sections, section)
        /\ awsFile.sections = Del(aws0.sections, section)
        /\ (~aws0.exists \/ ~Has(aws0.sections, section)) =>
              (awsFile = aws0 /\ "aws_write" \notin LatestCall.done)

\* C22: the session marker, the current-account variable and the profile
\* variable of the AWS CLI are in the environment of the sub-shell and never
\* in the environment of the process that runs use: that one is, at every
\* point of a use that got to starting the sub-shell and after it returned,
\* the environment the command was started with, which the session guard
\* lets pass.
C22_EnvOnlyInSubshell ==
    \A p \in Procs :
        (proc[p].command = "use" /\ "shell" \in proc[p].done) =>
            /\ proc[p].environ =
                  (IF proc[p].parent = 0 THEN BaseEnv
                   ELSE proc[proc[p].parent].child_env)
            /\ ~MarkerSet(p)
            /\ proc[p].environ.KEE_CURRENT_ACCOUNT = Unset
            /\ proc[p].environ.AWS_PROFILE = Unset
            /\ proc[p].pc = "shell" =>
                  /\ proc[p].child_env.KEE_ACTIVE_PROFILE = "1"
                  /\ proc[p].child_env.KEE_CURRENT_ACCOUNT = proc[p].account_name
                  /\ proc[p].child_env.AWS_PROFILE \in Names

\* A use whose sub-shell was started and has exited has returned.
C22_Witness ==
    \E p \in Procs :
        /\ proc[p].command = "use" /\ Ended(p) /\ proc[p].ret = "true"
        /\ {"shell", "shell_end"} \subseteq proc[p].done
        /\ ~MarkerSet(p)

\* C23: a command whose save of the registry failed ends with the exception
\* reaching main (printed there, exit status 1), whichever of add, use and
\* remove it is.
C23_SaveFailureReachesMain ==
    \A p \in Procs :
        (Ended(p) /\ "save_failed" \in proc[p].done) => proc[p].ret = "raised"

\* C24: nothing guards the registry file between the processes.  Every
\* step that writes it is taken by one process and writes that process's
\* whole snapshot, the one it loaded earlier, changed only by its own
\* update, whatever the file holds by then: the file after the step is the
\* writer's snapshot.
C24_WriterStep ==
    \A p \in Procs :
        (regFile' # regFile /\ proc[p].pc # "idle" /\ proc'[p] # proc[p]) =>
            LET snap == proc[p].config_data
                name == proc[p].account_name
            IN
            /\ "load" \in proc[p].done
            /\ regFile'.exists
            /\ regFile'.accounts =
                  (IF proc[p].pc = "rm_confirm" THEN Del(snap.accounts, name)
                   ELSE snap.accounts)
            /\ regFile'.current_account =
                  (CASE proc[p].pc = "use_activate" -> name
                     [] proc[p].pc = "use_clear" -> Null
                     [] proc[p].pc = "rm_confirm" ->
                          (IF snap.current_account = name THEN Null
                           ELSE snap.current_account)
                     [] OTHER -> snap.current_account)

C24_LastWriterWins == [][C24_WriterStep]_vars

\* An add has saved the record of "b", a remove of "a" that had loaded the
\* registry before has saved after it, and the record of "b" is gone.
C24_Witness ==
    \E p, q \in Procs :
        /\ proc[p].command = "remove" /\ proc[p].account_name = "a"
        /\ proc[p].pc = "rm_profile" /\ "save" \in proc[p].done
        /\ proc[q].command = "add" /\ proc[q].account_name = "b"
        /\ proc[q].pc = "add_probe" /\ "save" \in proc[q].done
        /\ regFile.accounts = <<>>

\* C25: list() leaves both files as they are and prints the accounts of the
\* registry in their stored order, the current mark on the entry named by
\* current_account and on no other; an empty or absent registry is listed
\* as no entries.
C25_ListIsPureRead ==
    (LatestCall.command = "list" /\ ~Damaged(reg0)) =>
        LET printed == LatestCall.printed IN
        /\ regFile = reg0 /\ awsFile = aws0
        /\ LatestCall.ret = "returned"
        /\ LatestCall.done = {"load"}
        /\ Len(printed) = Len(reg0.accounts)
        /\ \A i \in DOMAIN printed :
              /\ printed[i].name = reg0.accounts[i].name
              /\ printed[i].is_current = (printed[i].name = reg0.current_account)
        /\ Cardinality({i \in DOMAIN printed : printed[i].is_current}) <= 1

\* Two accounts were listed, the second one being the current one.
C25_Witness ==
    /\ LatestCall.command = "list" /\ LatestCall.ret = "returned"
    /\ Len(LatestCall.printed) = 2
    /\ LatestCall.printed[1].name = "b"
    /\ ~LatestCall.printed[1].is_current /\ LatestCall.printed[2].is_current

\* C26: every record in the registry file has a non-empty profile_name,
\* whatever account names were given on the command line, the empty string
\* included, and whatever adds, uses and removes were run.
C26_ProfileNameNonEmpty ==
    \A i \in DOMAIN regFile.accounts :
        regFile.accounts[i].val.profile_name # ""

\* C27: reformat_config_file leaves the sections of the file as they were:
\* the same sections in the same order, each with its own entries, no entry
\* gained, lost or changed.
C27_ReformatPreserves ==
    LatestCall.command = "reformat" =>
        /\ LatestCall.ret = "returned"
        /\ awsFile.sections = aws0.sections

\* C28: _read_profile_info.  No profile section: no record.  A section that
\* names an sso-session: session_name is that name, and start URL and region
\* are those of the sso-session section ("" where it has none).  A section
\* without sso_session: session_name is "", start URL and region are the
\* inline ones ("" where there is none).  Account id and role are those of
\* the profile section, "unknown" where there is none.
C28_ProfileShapes ==
    LatestCall.command = "read_profile_info" =>
        LET section == "profile " \o LatestCall.account_name
            info == LatestCall.profile_info
        IN IF ~Has(awsFile.sections, section)
           THEN DOMAIN info = {}
           ELSE LET items == Get(awsFile.sections, section) IN
                /\ DOMAIN info # {}
                /\ info["sso_account_id"] = GetOr(items, "sso_account_id", "unknown")
                /\ info["sso_role_name"] = GetOr(items, "sso_role_name", "unknown")
                /\ "sso_session" \notin DOMAIN items =>
                      /\ info["session_name"] = ""
                      /\ info["sso_start_url"] = GetOr(items, "sso_start_url", "")
                      /\ info["sso_region"] = GetOr(items, "sso_region", "")
                /\ "sso_session" \in DOMAIN items =>
                      /\ info["session_name"] = items["sso_session"]
                      /\ Has(awsFile.sections, "sso-session " \o items["sso_session"]) =>
                            LET sso == Get(awsFile.sections,
                                           "sso-session " \o items["sso_session"])
                            IN /\ info["sso_start_url"] = GetOr(sso, "sso_start_url", "")
                               /\ info["sso_region"] = GetOr(sso, "sso_region", "")

\* C29: the step that ends a session (the save that clears current_account
\* after the sub-shell has exited) leaves the accounts of the registry file
\* as they were on disk just before it, so what commands run inside the
\* sub-shell persisted is still there.
C29_ClearingStep ==
    \A p \in Procs :
        (proc[p].pc = "use_clear" /\ proc'[p].pc # "use_clear") =>
            /\ regFile'.exists = regFile.exists
            /\ regFile'.accounts = regFile.accounts

C29_SessionEndKeepsAccounts == [][C29_ClearingStep]_vars

\* C30: the section a remove deletes is the section add read the record
\* from: after _read_profile_info(name) found a section and
\* remove_profile(name) ran, the file no longer has that section.
C30_SameSection ==
    (/\ LatestCall.command = "remove_profile"
     /\ PreviousCall.command = "read_profile_info"
     /\ PreviousCall.account_name = LatestCall.account_name
     /\ DOMAIN PreviousCall.profile_info # {}) =>
        ~Has(awsFile.sections, "profile " \o LatestCall.account_name)

====
